---- MODULE Spec2Model ----
(***************************************************************************)
(* Model of the chat backend in src/main.py: the in-memory stores users_db,*)
(* chats_db and messages_db, the connection registry active_connections,   *)
(* the REST handlers and the WebSocket endpoint.                           *)
(*                                                                         *)
(* Scheduling: the handlers are asyncio coroutines on one event loop, so a *)
(* handler runs without interleaving between two awaits.  The only awaits  *)
(* inside the modelled handlers are websocket.receive_text (line 368) and  *)
(* send_json (lines 400 and 541); each action below is the code between    *)
(* two such points.                                                        *)
(*                                                                         *)
(* main.py uses the names json, WebSocketDisconnect and Response without   *)
(* importing them.  The model reads them as the objects they denote        *)
(* (the json module, starlette's WebSocketDisconnect and Response).        *)
(***************************************************************************)
EXTENDS Integers, Sequences, FiniteSets, TLC

VARIABLES users_db, chats_db, messages_db, active_connections, ws, pending,
          resp, clock

vars == <<users_db, chats_db, messages_db, active_connections, ws, pending,
          resp, clock>>

(* ---- bounds ---- *)
MaxUserId == 2
MaxMsgs == 2
MaxConns == 2
MaxTime == 2
MaxPending == 1

Ids == 1..MaxUserId
Conns == 1..MaxConns
Timestamps == 1..MaxTime
Usernames == {"testuser", "alice"}
Emails == {"test@example.com", "alice@example.com"}
Contents == {"hi"}

NoMessage == 0

(* ---- helpers ---- *)
Min(a, b) == IF a <= b THEN a ELSE b
Max(a, b) == IF a >= b THEN a ELSE b

RECURSIVE MaxOf(_)
MaxOf(S) == IF S = {} THEN 0
            ELSE LET x == CHOOSE y \in S : TRUE IN Max(x, MaxOf(S \ {x}))

Put(f, k, v) == [x \in DOMAIN f \cup {k} |-> IF x = k THEN v ELSE f[x]]
Drop(f, k) == [x \in DOMAIN f \ {k} |-> f[x]]

(* ---- users ---- *)
UserIdsOf(users) == {users[k].id : k \in DOMAIN users}
UserExists(users, id) == \E k \in DOMAIN users : users[k].id = id

(* ---- hash(frozenset({user1_id, user2_id})), CPython 3.11, 64-bit ---- *)
FrozensetHash(S) ==
    CASE S = {1}    -> "-558064481276695278"
      [] S = {1, 2} -> "-1826646154956904602"
      [] S = {1, 3} -> "3218240494624046523"
      [] S = {1, 4} -> "1326775425792931714"
      [] S = {2}    -> "4774279697163166305"
      [] S = {2, 3} -> "6563540679455660548"
      [] S = {2, 4} -> "6813145525675546673"
      [] S = {3}    -> "6578559351554755696"
      [] S = {3, 4} -> "-8296090686598762464"
      [] S = {4}    -> "9130465943499038173"

ChatKeyOrdered(user1_id, user2_id) == <<user1_id, user2_id>>

ChatKey(user1_id, user2_id) == FrozensetHash({user1_id, user2_id})

CanonUser1First(user1_id, user2_id) == user1_id

CanonUser1(user1_id, user2_id) == Min(user1_id, user2_id)

CanonUser2(user1_id, user2_id) == Max(user1_id, user2_id)

get_or_create_chat(chats, user1_id, user2_id) ==
    LET chat_id == ChatKey(user1_id, user2_id) IN
    IF chat_id \in DOMAIN chats THEN chats
    ELSE Put(chats, chat_id,
             [id |-> chat_id,
              user1_id |-> CanonUser1(user1_id, user2_id),
              user2_id |-> CanonUser2(user1_id, user2_id),
              last_message |-> NoMessage,
              unread_count |-> 0])

(* ---- messages ---- *)
NextMessageIdSame(messages) == MaxOf(DOMAIN messages)

NextMessageId(messages) == MaxOf(DOMAIN messages) + 1

NewMessageRead(messages, sender_id, receiver_id, content, t) ==
    [id |-> NextMessageId(messages), content |-> content,
     sender_id |-> sender_id, receiver_id |-> receiver_id,
     timestamp |-> t, is_read |-> TRUE]

NewMessage(messages, sender_id, receiver_id, content, t) ==
    [id |-> NextMessageId(messages), content |-> content,
     sender_id |-> sender_id, receiver_id |-> receiver_id,
     timestamp |-> t, is_read |-> FALSE]

UnreadAfterSendSlip(n) == n - 1

UnreadAfterSend(n) == n + 1

(* last_message is bound to the message dict itself, the object stored in
   messages_db (lines 395 and 536): it is kept here as the message's id and
   read through messages_db, so it shows the message as it is now. *)
RecordDeliveryKeepFirst(chats, chat_id, message) ==
    [chats EXCEPT ![chat_id] =
        [@ EXCEPT !.last_message = IF @ = NoMessage THEN message.id ELSE @,
                  !.unread_count = UnreadAfterSend(@)]]

RecordDelivery(chats, chat_id, message) ==
    [chats EXCEPT ![chat_id] =
        [@ EXCEPT !.last_message = message.id,
                  !.unread_count = UnreadAfterSend(@)]]

Init ==
    /\ users_db = [k \in {"testuser"} |->
                     [id |-> 1, username |-> "testuser",
                      email |-> "test@example.com"]]
    /\ chats_db = <<>>
    /\ messages_db = <<>>
    /\ active_connections = <<>>
    /\ ws = [c \in Conns |-> [user_id |-> 0, chan |-> "none", pc |-> "none",
                              push_chan |-> 0, ignored |-> FALSE,
                              inbox |-> <<>>]]
    /\ pending = {}
    /\ resp = [op |-> "none"]
    /\ clock = 1

UsernameTakenNever(users, username) == FALSE

UsernameTaken(users, username) ==
    \E k \in DOMAIN users : users[k].username = username

register_user(username, email) ==
    /\ IF UsernameTaken(users_db, username)
       THEN /\ resp' = [op |-> "register_user", status |-> 400,
                        detail |-> "Username already registered"]
            /\ UNCHANGED users_db
       ELSE IF \E k \in DOMAIN users_db : users_db[k].email = email
       THEN /\ resp' = [op |-> "register_user", status |-> 400,
                        detail |-> "Email already registered"]
            /\ UNCHANGED users_db
       ELSE LET user_id == MaxOf(UserIdsOf(users_db)) + 1 IN
            /\ user_id <= MaxUserId
            /\ users_db' = Put(users_db, username,
                               [id |-> user_id, username |-> username,
                                email |-> email])
            /\ resp' = [op |-> "register_user", status |-> 200,
                        id |-> user_id, username |-> username]
    /\ UNCHANGED <<chats_db, messages_db, active_connections, ws, pending,
                   clock>>

update_user(user_id, email) ==
    /\ DOMAIN users_db # {}
    /\ IF ~UserExists(users_db, user_id)
       THEN /\ resp' = [op |-> "update_user", status |-> 404]
            /\ UNCHANGED users_db
       ELSE LET k == CHOOSE x \in DOMAIN users_db : users_db[x].id = user_id IN
            /\ users_db' = [users_db EXCEPT ![k].email = email]
            /\ resp' = [op |-> "update_user", status |-> 200,
                        id |-> user_id, email |-> email]
    /\ UNCHANGED <<chats_db, messages_db, active_connections, ws, pending,
                   clock>>

delete_user(user_id) ==
    /\ DOMAIN users_db # {}
    /\ IF ~UserExists(users_db, user_id)
       THEN /\ resp' = [op |-> "delete_user", status |-> 404]
            /\ UNCHANGED users_db
       ELSE LET user_key == CHOOSE x \in DOMAIN users_db :
                                users_db[x].id = user_id IN
            /\ users_db' = Drop(users_db, user_key)
            /\ resp' = [op |-> "delete_user", status |-> 204]
    /\ UNCHANGED <<chats_db, messages_db, active_connections, ws, pending,
                   clock>>

(* ---- chat REST handlers ---- *)
create_chat(cur, other_user_id) ==
    /\ cur \in DOMAIN users_db
    /\ IF ~UserExists(users_db, other_user_id)
       THEN /\ resp' = [op |-> "create_chat", status |-> 404]
            /\ UNCHANGED chats_db
       ELSE LET me == users_db[cur].id
                chats == get_or_create_chat(chats_db, me, other_user_id)
                chat_id == ChatKey(me, other_user_id)
            IN /\ chats_db' = chats
               /\ resp' = [op |-> "create_chat", status |-> 200,
                           me |-> me, other_user_id |-> other_user_id,
                           id |-> chat_id,
                           user1_id |-> chats[chat_id].user1_id,
                           user2_id |-> chats[chat_id].user2_id,
                           last_message |-> NoMessage, unread_count |-> 0]
    /\ UNCHANGED <<users_db, messages_db, active_connections, ws, pending, clock>>

(* get_user_chats: lines 461-482.  The body is the list of entries, one per
   conversation of the caller whose other participant exists; it is kept
   here as the set of its entries. *)
OtherUser(chat, me) ==
    IF chat.user1_id = me THEN chat.user2_id ELSE chat.user1_id

ChatEntry(chat, me, messages) ==
    [id |-> chat.id,
     other_user |-> OtherUser(chat, me),
     last_message |-> IF chat.last_message = NoMessage THEN NoMessage
                      ELSE messages[chat.last_message],
     unread_count |-> chat.unread_count]

get_user_chats(cur) ==
    /\ cur \in DOMAIN users_db
    /\ LET me == users_db[cur].id IN
       resp' = [op |-> "get_user_chats", status |-> 200, me |-> me,
                body |-> {ChatEntry(chats_db[k], me, messages_db) :
                            k \in {x \in DOMAIN chats_db :
                                     /\ \/ chats_db[x].user1_id = me
                                        \/ chats_db[x].user2_id = me
                                     /\ UserExists(users_db,
                                            OtherUser(chats_db[x], me))}}]
    /\ UNCHANGED <<users_db, chats_db, messages_db, active_connections, ws,
                   pending, clock>>

BetweenOneWay(msg, me, other_user_id) ==
    msg.sender_id = me /\ msg.receiver_id = other_user_id

Between(msg, me, other_user_id) ==
    \/ msg.sender_id = me /\ msg.receiver_id = other_user_id
    \/ msg.sender_id = other_user_id /\ msg.receiver_id = me

ShouldMarkReadAgain(msg, me) == msg.receiver_id = me

ShouldMarkReadAny(msg, me) == ~msg.is_read

ShouldMarkRead(msg, me) == msg.receiver_id = me /\ ~msg.is_read

UnreadAfterReadKeep(n) == Max(0, n)

UnreadAfterRead(n) == Max(0, n - 1)

RECURSIVE AscendingIds(_)
AscendingIds(S) ==
    IF S = {} THEN <<>>
    ELSE LET m == MaxOf(S) IN Append(AscendingIds(S \ {m}), m)

ComesBeforeStrict(a, b) == a.timestamp < b.timestamp

ComesBefore(a, b) == a.timestamp <= b.timestamp

RECURSIVE InsertSorted(_, _)
InsertSorted(sorted, msg) ==
    IF sorted = <<>> THEN <<msg>>
    ELSE LET last == sorted[Len(sorted)] IN
         IF ComesBefore(last, msg) THEN Append(sorted, msg)
         ELSE Append(InsertSorted(SubSeq(sorted, 1, Len(sorted) - 1), msg),
                     last)

RECURSIVE SortedByTimestamp(_)
SortedByTimestamp(list) ==
    IF list = <<>> THEN <<>>
    ELSE InsertSorted(SortedByTimestamp(SubSeq(list, 1, Len(list) - 1)),
                      list[Len(list)])

RECURSIVE MarkRead(_, _, _, _, _)
MarkRead(messages, chats, chat_id, ids, me) ==
    IF ids = <<>> THEN [messages |-> messages, chats |-> chats]
    ELSE LET i == Head(ids) IN
         IF ShouldMarkRead(messages[i], me)
         THEN MarkRead([messages EXCEPT ![i].is_read = TRUE],
                       [chats EXCEPT ![chat_id].unread_count =
                                          UnreadAfterRead(@)],
                       chat_id, Tail(ids), me)
         ELSE MarkRead(messages, chats, chat_id, Tail(ids), me)

HistoryIds(messages, me, other_user_id) ==
    AscendingIds({i \in DOMAIN messages :
                     Between(messages[i], me, other_user_id)})

ChatMessages(messages, chats, me, other_user_id) ==
    LET chat_id == ChatKey(me, other_user_id)
        chats1 == get_or_create_chat(chats, me, other_user_id)
        ids == HistoryIds(messages, me, other_user_id)
        marked == MarkRead(messages, chats1, chat_id, ids, me)
    IN [messages |-> marked.messages, chats |-> marked.chats,
        body |-> SortedByTimestamp(
                    [n \in 1..Len(ids) |-> marked.messages[ids[n]]])]

get_chat_messages(cur, other_user_id) ==
    /\ cur \in DOMAIN users_db
    /\ LET me == users_db[cur].id
           r == ChatMessages(messages_db, chats_db, me, other_user_id)
       IN /\ messages_db' = r.messages
          /\ chats_db' = r.chats
          /\ resp' = [op |-> "get_chat_messages", status |-> 200,
                      me |-> me, other_user_id |-> other_user_id,
                      body |-> r.body]
    /\ UNCHANGED <<users_db, active_connections, ws, pending, clock>>

(* ---- datetime.utcnow(): the wall clock, which the environment may set
        forward or back between two reads ---- *)
clock_step(t) ==
    /\ t # clock
    /\ clock' = t
    /\ UNCHANGED <<users_db, chats_db, messages_db, active_connections, ws,
                   pending, resp>>

(* ---- send over REST: lines 513-547 ---- *)
Stored(messages, chats, sender_id, receiver_id, content, t) ==
    LET message == NewMessage(messages, sender_id, receiver_id, content, t)
        chat_id == ChatKey(sender_id, receiver_id)
    IN [message |-> message,
        messages |-> Put(messages, message.id, message),
        chats |-> RecordDelivery(
                     get_or_create_chat(chats, sender_id, receiver_id),
                     chat_id, message)]

(* send_json (lines 400 and 541) encodes the event with json.dumps and then
   writes the frame.  The event holds the message with its 'timestamp', a
   datetime, which json.dumps does not encode: it raises TypeError and
   nothing reaches the socket.  The encoder is not part of src/, so the
   callers below take both outcomes: the call raises at once, or the frame
   is written at the call (Written) and the await ends later. *)
Written(w, chan, message_id) ==
    IF w[chan].chan = "open"
    THEN [w EXCEPT ![chan].inbox = Append(@, message_id)]
    ELSE w

send_message(cur, receiver_id, content) ==
    /\ cur \in DOMAIN users_db
    /\ IF ~UserExists(users_db, receiver_id)
       THEN /\ resp' = [op |-> "send_message", status |-> 404]
            /\ UNCHANGED <<chats_db, messages_db, pending, ws>>
       ELSE LET me == users_db[cur].id
                s == Stored(messages_db, chats_db, me, receiver_id, content,
                            clock)
            IN /\ s.message.id <= MaxMsgs
               /\ messages_db' = s.messages
               /\ chats_db' = s.chats
               /\ IF receiver_id \in DOMAIN active_connections
                  THEN LET chan == active_connections[receiver_id] IN
                       \/ /\ Cardinality(pending) < MaxPending
                          /\ pending' = pending \cup
                                {[message_id |-> s.message.id, chan |-> chan]}
                          /\ ws' = Written(ws, chan, s.message.id)
                          /\ UNCHANGED resp
                       \/ /\ resp' = [op |-> "send_message", status |-> 500]
                          /\ UNCHANGED <<pending, ws>>
                  ELSE /\ resp' = [op |-> "send_message", status |-> 200,
                                   pushed |-> FALSE, body |-> s.message]
                       /\ UNCHANGED <<pending, ws>>
    /\ UNCHANGED <<users_db, active_connections, clock>>

send_message_pushed(p) ==
    /\ p \in pending
    /\ ws[p.chan].chan # "stalled"
    /\ pending' = pending \ {p}
    /\ IF ws[p.chan].chan = "open"
       THEN resp' = [op |-> "send_message", status |-> 200,
                     pushed |-> TRUE, body |-> messages_db[p.message_id]]
       ELSE resp' = [op |-> "send_message", status |-> 500]
    /\ UNCHANGED <<users_db, chats_db, messages_db, active_connections, ws,
                   clock>>

(* ---- WebSocket endpoint: lines 362-404 ---- *)
(* A connection whose endpoint coroutine has returned or raised: the server
   closes the socket and the coroutine's locals are gone.  ws[c].ignored is
   TRUE when the frame the loop read last was dropped at line 377;
   ws[c].inbox is the sequence of new_message events (their message ids)
   written to the socket, in the order they were written. *)
Ended == [user_id |-> 0, chan |-> "closed", pc |-> "done", push_chan |-> 0,
          ignored |-> FALSE, inbox |-> <<>>]

websocket_accept(c, user_id) ==
    /\ ws[c].pc = "none"
    /\ \A d \in Conns : d < c => ws[d].pc # "none"
    /\ ws' = [ws EXCEPT ![c] = [user_id |-> user_id, chan |-> "open",
                                pc |-> "recv", push_chan |-> 0,
                                ignored |-> FALSE, inbox |-> <<>>]]
    /\ active_connections' = Put(active_connections, user_id, c)
    /\ UNCHANGED <<users_db, chats_db, messages_db, pending, resp, clock>>

client_close(c) ==
    /\ ws[c].chan = "open"
    /\ ws' = [ws EXCEPT ![c].chan = "closed"]
    /\ UNCHANGED <<users_db, chats_db, messages_db, active_connections,
                   pending, resp, clock>>

(* The peer stops reading: the socket's send buffer stays full and a send
   on it does not complete.  send_json is awaited without a timeout (lines
   400 and 541), so the awaiting handler resumes only when the send ends. *)
client_stall(c) ==
    /\ ws[c].chan = "open"
    /\ ws' = [ws EXCEPT ![c].chan = "stalled"]
    /\ UNCHANGED <<users_db, chats_db, messages_db, active_connections,
                   pending, resp, clock>>

Unregister(registry, user_id, c) == Drop(registry, user_id)

websocket_disconnect(c) ==
    /\ ws[c].pc = "recv"
    /\ ws[c].chan = "closed"
    /\ active_connections' = Unregister(active_connections, ws[c].user_id, c)
    /\ ws' = [ws EXCEPT ![c] = Ended]
    /\ UNCHANGED <<users_db, chats_db, messages_db, pending, resp, clock>>

websocket_receive_invalid(c) ==
    /\ ws[c].pc = "recv"
    /\ ws[c].chan = "open"
    /\ ws' = [ws EXCEPT ![c] = Ended]
    /\ UNCHANGED <<users_db, chats_db, messages_db, active_connections,
                   pending, resp, clock>>

handle_websocket_message(c, receiver_id, content) ==
    /\ ws[c].pc = "recv"
    /\ ws[c].chan = "open"
    /\ LET sender_id == ws[c].user_id
           s == Stored(messages_db, chats_db, sender_id, receiver_id,
                       content, clock)
       IN /\ s.message.id <= MaxMsgs
          /\ messages_db' = s.messages
          /\ chats_db' = s.chats
          /\ IF receiver_id \in DOMAIN active_connections
             THEN LET chan == active_connections[receiver_id] IN
                  \/ ws' = Written([ws EXCEPT ![c].pc = "send",
                                              ![c].push_chan = chan,
                                              ![c].ignored = FALSE],
                                    chan, s.message.id)
                  \/ ws' = [ws EXCEPT ![c] = Ended]
             ELSE ws' = [ws EXCEPT ![c].ignored = FALSE]
    /\ UNCHANGED <<users_db, active_connections, pending, resp, clock>>

(* One turn of the receive loop (lines 366-370) on a frame that decodes to a
   JSON object: message_type is data.get('type'), "missing" when the object
   has no such key.  A frame of another type falls through line 377 and the
   loop reads again; ws[c].ignored records that the frame read last ended so. *)
FrameTypes == {"message", "typing", "missing"}

IsMessageOrMissing(message_type) == message_type \in {"message", "missing"}

IsMessage(message_type) == message_type = "message"

websocket_frame(c, message_type, receiver_id, content) ==
    IF IsMessage(message_type)
    THEN handle_websocket_message(c, receiver_id, content)
    ELSE /\ ws[c].pc = "recv"
         /\ ws[c].chan = "open"
         /\ ws' = [ws EXCEPT ![c].ignored = TRUE]
         /\ UNCHANGED <<users_db, chats_db, messages_db, active_connections,
                        pending, resp, clock>>

websocket_pushed(c, exc) ==
    /\ ws[c].pc = "send"
    /\ ws[ws[c].push_chan].chan # "stalled"
    /\ IF ws[ws[c].push_chan].chan = "open"
       THEN /\ exc = "none"
            /\ ws' = [ws EXCEPT ![c].pc = "recv", ![c].push_chan = 0]
            /\ UNCHANGED active_connections
       ELSE /\ exc # "none"
            /\ ws' = [ws EXCEPT ![c] = Ended]
            /\ IF exc = "WebSocketDisconnect"
               THEN active_connections' =
                       Unregister(active_connections, ws[c].user_id, c)
               ELSE UNCHANGED active_connections
    /\ UNCHANGED <<users_db, chats_db, messages_db, pending, resp, clock>>

(***************************************************************************)
(* Specifications.  Each takes the handlers that read or write the state   *)
(* its properties are about:                                               *)
(*   Spec      the three stores under every handler that writes chats_db   *)
(*             or messages_db, over REST and over open connections;        *)
(*   SpecConn  the connection registry and the pushes, with connections    *)
(*             that open, close and fail;                                  *)
(*   SpecRest  the REST chat handlers with a wall clock that moves;        *)
(*   SpecUsers the identity store;                                         *)
(*   SpecStall the pushes when a peer may stop reading, with the event     *)
(*             loop's fairness: a handler whose awaited send has ended is  *)
(*             resumed.                                                    *)
(***************************************************************************)
Next ==
    \/ \E username \in Usernames, email \in Emails :
          register_user(username, email)
    \/ \E cur \in Usernames, other_user_id \in Ids :
          create_chat(cur, other_user_id)
    \/ \E cur \in Usernames, other_user_id \in Ids :
          get_chat_messages(cur, other_user_id)
    \/ \E cur \in Usernames, receiver_id \in Ids, content \in Contents :
          send_message(cur, receiver_id, content)
    \/ \E p \in pending : send_message_pushed(p)
    \/ \E c \in Conns, user_id \in Ids : websocket_accept(c, user_id)
    \/ \E c \in Conns, receiver_id \in Ids, content \in Contents :
          handle_websocket_message(c, receiver_id, content)
    \/ \E c \in Conns, exc \in {"none", "WebSocketDisconnect", "RuntimeError"} :
          websocket_pushed(c, exc)

Spec == Init /\ [][Next]_vars

NextConn ==
    \/ \E username \in Usernames, email \in Emails :
          register_user(username, email)
    \/ \E cur \in Usernames, receiver_id \in Ids, content \in Contents :
          send_message(cur, receiver_id, content)
    \/ \E p \in pending : send_message_pushed(p)
    \/ \E c \in Conns, user_id \in Ids : websocket_accept(c, user_id)
    \/ \E c \in Conns : client_close(c)
    \/ \E c \in Conns : websocket_disconnect(c)
    \/ \E c \in Conns : websocket_receive_invalid(c)
    \/ \E c \in Conns, message_type \in FrameTypes, receiver_id \in Ids,
          content \in Contents :
          websocket_frame(c, message_type, receiver_id, content)
    \/ \E c \in Conns, exc \in {"none", "WebSocketDisconnect", "RuntimeError"} :
          websocket_pushed(c, exc)

SpecConn == Init /\ [][NextConn]_vars

NextRest ==
    \/ \E username \in Usernames, email \in Emails :
          register_user(username, email)
    \/ \E cur \in Usernames, other_user_id \in Ids :
          create_chat(cur, other_user_id)
    \/ \E cur \in Usernames, other_user_id \in Ids :
          get_chat_messages(cur, other_user_id)
    \/ \E cur \in Usernames, receiver_id \in Ids, content \in Contents :
          send_message(cur, receiver_id, content)
    \/ \E cur \in Usernames : get_user_chats(cur)
    \/ \E t \in Timestamps : clock_step(t)

SpecRest == Init /\ [][NextRest]_vars

NextUsers ==
    \/ \E username \in Usernames, email \in Emails :
          register_user(username, email)
    \/ \E user_id \in Ids, email \in Emails : update_user(user_id, email)
    \/ \E user_id \in Ids : delete_user(user_id)
    \/ \E cur \in Usernames, receiver_id \in Ids, content \in Contents :
          send_message(cur, receiver_id, content)

SpecUsers == Init /\ [][NextUsers]_vars

PushRecords == [message_id : 1..MaxMsgs, chan : Conns]

NextStall ==
    \/ \E username \in Usernames, email \in Emails :
          register_user(username, email)
    \/ \E cur \in Usernames, receiver_id \in Ids, content \in Contents :
          send_message(cur, receiver_id, content)
    \/ \E p \in pending : send_message_pushed(p)
    \/ \E c \in Conns, user_id \in Ids : websocket_accept(c, user_id)
    \/ \E c \in Conns : client_stall(c)
    \/ \E c \in Conns, receiver_id \in Ids, content \in Contents :
          handle_websocket_message(c, receiver_id, content)
    \/ \E c \in Conns, exc \in {"none", "WebSocketDisconnect", "RuntimeError"} :
          websocket_pushed(c, exc)

SpecStall ==
    /\ Init
    /\ [][NextStall]_vars
    /\ \A p \in PushRecords : WF_vars(send_message_pushed(p))
    /\ \A c \in Conns :
          WF_vars(\E exc \in {"none", "WebSocketDisconnect", "RuntimeError"} :
                     websocket_pushed(c, exc))

(***************************************************************************)
(* Properties                                                              *)
(***************************************************************************)
PairOf(chat) == {chat.user1_id, chat.user2_id}

BodyIds(body) == {body[n].id : n \in 1..Len(body)}

InHistory(messages, chats, i) ==
    i \in BodyIds(ChatMessages(messages, chats, messages[i].receiver_id,
                               messages[i].sender_id).body)

(* C1: a REST send_message processed while the receiver has no entry in the
   connection registry answers 200 with the new message, that message is in
   messages_db with is_read = FALSE, and get_chat_messages called by the
   receiver for the sender returns it; every stored message stays in the
   history its receiver gets for its sender. *)
C1_DurableBeforePush ==
    /\ [](\A i \in DOMAIN messages_db : InHistory(messages_db, chats_db, i))
    /\ [][\A cur \in Usernames, receiver_id \in Ids, content \in Contents :
            (/\ receiver_id \notin DOMAIN active_connections
             /\ UserExists(users_db, receiver_id)
             /\ send_message(cur, receiver_id, content))
            => /\ resp'.op = "send_message"
               /\ resp'.status = 200
               /\ LET m == resp'.body IN
                  /\ m.id \notin DOMAIN messages_db
                  /\ m.id \in DOMAIN messages_db'
                  /\ messages_db'[m.id] = m
                  /\ m.is_read = FALSE
                  /\ m.sender_id = users_db[cur].id
                  /\ m.receiver_id = receiver_id
                  /\ InHistory(messages_db', chats_db', m.id)]_vars

C1_Witness ==
    /\ resp.op = "send_message"
    /\ resp.status = 200
    /\ resp.body.sender_id # resp.body.receiver_id
    /\ resp.body.receiver_id \notin DOMAIN active_connections
    /\ ~messages_db[resp.body.id].is_read

(* C2: when the push of a REST send_message ends, whether or not the channel
   took the event, the sender gets 200 with the persisted message. *)
C2_PushFailureSilent ==
    [][\A p \in pending :
          send_message_pushed(p)
          => /\ resp'.op = "send_message"
             /\ resp'.status = 200
             /\ resp'.body.id = p.message_id]_vars

(* C3: no step appends a message whose receiver_id is not the id of an
   existing user (a send is the only step that appends, and a send changes
   chats_db only together with its append). *)
C3_UnknownRecipientRejected ==
    [][\A i \in DOMAIN messages_db' \ DOMAIN messages_db :
          UserExists(users_db, messages_db'[i].receiver_id)]_vars

(* C4: chats_db holds at most one conversation per unordered pair of user
   ids, whatever handlers called get_or_create_chat and in what order. *)
C4_OneChatPerPair ==
    \A k1 \in DOMAIN chats_db, k2 \in DOMAIN chats_db :
        PairOf(chats_db[k1]) = PairOf(chats_db[k2]) => k1 = k2

C4_Witness ==
    /\ \E i \in DOMAIN messages_db, j \in DOMAIN messages_db :
          /\ messages_db[i].sender_id = 1 /\ messages_db[i].receiver_id = 2
          /\ messages_db[j].sender_id = 2 /\ messages_db[j].receiver_id = 1
    /\ Cardinality({k \in DOMAIN chats_db : PairOf(chats_db[k]) = {1, 2}}) = 1

(* C5: the id create_chat returns for (a, b) is the id of the one stored
   conversation of the unordered pair {a, b}, whichever order created it and
   whatever happened since, and that record stores user1_id = min(a, b) and
   user2_id = max(a, b). *)
C5_CanonicalChatId ==
    (resp.op = "create_chat" /\ resp.status = 200)
    => LET a == resp.me
           b == resp.other_user_id
       IN /\ resp.id \in DOMAIN chats_db
          /\ \A k \in DOMAIN chats_db :
                PairOf(chats_db[k]) = {a, b}
                => k = resp.id /\ chats_db[k].id = resp.id
          /\ chats_db[resp.id].user1_id = Min(a, b)
          /\ chats_db[resp.id].user2_id = Max(a, b)
          /\ resp.user1_id = Min(a, b)
          /\ resp.user2_id = Max(a, b)
          /\ ChatKey(a, b) = resp.id
          /\ ChatKey(b, a) = resp.id

C5_Witness ==
    /\ resp.op = "create_chat"
    /\ resp.status = 200
    /\ resp.me = 2
    /\ resp.other_user_id = 1
    /\ chats_db[resp.id].unread_count > 0
    /\ \E i \in DOMAIN messages_db :
          messages_db[i].sender_id = 1 /\ messages_db[i].receiver_id = 2

(* C6: unread_count of every conversation is >= 0. *)
C6_UnreadNonNegative ==
    \A k \in DOMAIN chats_db : chats_db[k].unread_count >= 0

C6_Witness ==
    \E k \in DOMAIN chats_db :
        /\ chats_db[k].unread_count = 0
        /\ chats_db[k].last_message # NoMessage
        /\ messages_db[chats_db[k].last_message].is_read

(* C7: get_chat_messages(requester, peer) sets is_read on exactly the
   messages with sender_id = peer and receiver_id = requester; every other
   message, and every other field, is as before, and none is added or
   removed. *)
C7_MarkReadExact ==
    [][\A cur \in Usernames, other_user_id \in Ids :
          (resp'.op = "get_chat_messages" /\ get_chat_messages(cur, other_user_id))
          => LET me == users_db[cur].id IN
             /\ DOMAIN messages_db' = DOMAIN messages_db
             /\ \A i \in DOMAIN messages_db :
                   IF /\ messages_db[i].sender_id = other_user_id
                      /\ messages_db[i].receiver_id = me
                   THEN messages_db'[i] =
                           [messages_db[i] EXCEPT !.is_read = TRUE]
                   ELSE messages_db'[i] = messages_db[i]]_vars

C7_Witness ==
    /\ resp.op = "get_chat_messages"
    /\ resp.me # resp.other_user_id
    /\ \E i \in DOMAIN messages_db, j \in DOMAIN messages_db :
          /\ messages_db[i].sender_id = resp.other_user_id
          /\ messages_db[i].receiver_id = resp.me
          /\ messages_db[i].is_read
          /\ messages_db[j].sender_id = resp.me
          /\ messages_db[j].receiver_id = resp.other_user_id
          /\ ~messages_db[j].is_read

(* C8: the list get_chat_messages(a, b) returns holds exactly the stored
   messages between a and b, each once and as stored, ordered by timestamp
   and, among equal timestamps, by ascending id. *)
C8_HistorySorted ==
    [][\A cur \in Usernames, other_user_id \in Ids :
          (resp'.op = "get_chat_messages" /\ get_chat_messages(cur, other_user_id))
          => LET me == users_db[cur].id
                 body == resp'.body
             IN /\ BodyIds(body) =
                      {i \in DOMAIN messages_db' :
                          \/ /\ messages_db'[i].sender_id = me
                             /\ messages_db'[i].receiver_id = other_user_id
                          \/ /\ messages_db'[i].sender_id = other_user_id
                             /\ messages_db'[i].receiver_id = me}
                /\ Len(body) = Cardinality(BodyIds(body))
                /\ \A n \in 1..Len(body) : body[n] = messages_db'[body[n].id]
                /\ \A m \in 1..Len(body), n \in 1..Len(body) :
                      m < n => \/ body[m].timestamp < body[n].timestamp
                               \/ /\ body[m].timestamp = body[n].timestamp
                                  /\ body[m].id < body[n].id]_vars

C8_Witness ==
    /\ resp.op = "get_chat_messages"
    /\ Len(resp.body) >= 2
    /\ resp.body[1].timestamp = resp.body[2].timestamp
    /\ resp.body[1].sender_id # resp.body[2].sender_id

(* C9: get_chat_messages run a second time right after a first one changes
   neither messages_db nor chats_db and returns the same list. *)
C9_MarkReadIdempotent ==
    \A me \in Ids, other_user_id \in Ids :
        LET r1 == ChatMessages(messages_db, chats_db, me, other_user_id)
            r2 == ChatMessages(r1.messages, r1.chats, me, other_user_id)
        IN /\ r2.messages = r1.messages
           /\ r2.chats = r1.chats
           /\ r2.body = r1.body

C9_Witness ==
    /\ resp.op = "get_chat_messages"
    /\ resp.me # resp.other_user_id
    /\ \E n \in 1..Len(resp.body) :
          resp.body[n].receiver_id = resp.me /\ resp.body[n].is_read
    /\ chats_db[ChatKey(resp.me, resp.other_user_id)].unread_count > 0
    /\ ChatMessages(messages_db, chats_db, resp.me, resp.other_user_id).body
          = resp.body

(* C10: when the endpoint of connection c ends, the registry entry of a user
   mapped to another connection is neither removed nor changed. *)
C10_GuardedUnregister ==
    [][\A c \in Conns, u \in DOMAIN active_connections :
          (/\ ws[c].pc \in {"recv", "send"}
           /\ ws'[c].pc = "done"
           /\ active_connections[u] # c)
          => /\ u \in DOMAIN active_connections'
             /\ active_connections'[u] = active_connections[u]]_vars

(* C11: once the endpoint task of a connection has ended, whatever ended it
   (close by the peer, a failed read, a frame that does not decode), the
   registry maps no user to that connection. *)
C11_ReleasedOnClose ==
    \A u \in DOMAIN active_connections :
        ws[active_connections[u]].pc # "done"

(* C12: a frame whose type is not 'message' (or that has no type) changes
   neither users_db, chats_db, messages_db nor active_connections, starts
   no push, and leaves the connection open at its receive point, where the
   loop takes the next frame. *)
C12_OtherFrameIgnored ==
    /\ [](\A c \in Conns : ws[c].ignored => ws[c].pc = "recv")
    /\ [][\A c \in Conns, message_type \in FrameTypes \ {"message"},
            receiver_id \in Ids, content \in Contents :
            websocket_frame(c, message_type, receiver_id, content)
            => /\ UNCHANGED <<users_db, chats_db, messages_db,
                             active_connections, pending>>
               /\ ws'[c].pc = "recv"
               /\ ws'[c].chan = "open"
               /\ ws'[c].push_chan = 0
               /\ ws'[c].user_id = ws[c].user_id
               /\ \A d \in Conns \ {c} : ws'[d] = ws[d]]_vars

C12_Witness ==
    \E c \in Conns :
        /\ ws[c].ignored
        /\ ws[c].chan = "open"
        /\ ws[c].pc = "recv"
        /\ ws[c].user_id \in DOMAIN active_connections
        /\ active_connections[ws[c].user_id] = c
        /\ \E i \in DOMAIN messages_db :
              messages_db[i].sender_id = ws[c].user_id

(* C13: register_user runs without an await, so two racing requests with one
   username are two register_user steps in some order.  The one that finds
   the username stored is rejected with 400 "Username already registered"
   and changes nothing; the one that succeeds leaves exactly one record with
   that username, its own; and at no time do two records share a username. *)
RecordsNamed(users, username) ==
    {k \in DOMAIN users : users[k].username = username}

C13_DuplicateUsernameRace ==
    /\ [](\A username \in Usernames :
             Cardinality(RecordsNamed(users_db, username)) <= 1)
    /\ [][\A username \in Usernames, email \in Emails :
            register_user(username, email)
            => /\ resp'.op = "register_user"
               /\ IF RecordsNamed(users_db, username) # {}
                  THEN /\ resp'.status = 400
                       /\ resp'.detail = "Username already registered"
                       /\ users_db' = users_db
                  ELSE /\ (\A k \in DOMAIN users_db :
                              users_db[k].email # email)
                          => resp'.status = 200
                       /\ resp'.status = 200
                       => /\ Cardinality(RecordsNamed(users_db', username)) = 1
                          /\ \A k \in RecordsNamed(users_db', username) :
                                /\ users_db'[k].id = resp'.id
                                /\ users_db'[k].email = email
                          /\ \A k \in DOMAIN users_db :
                                k \in DOMAIN users_db'
                                /\ users_db'[k] = users_db[k]]_vars

C13_Witness ==
    /\ resp.op = "register_user"
    /\ resp.status = 400
    /\ resp.detail = "Username already registered"
    /\ Cardinality(RecordsNamed(users_db, "alice")) = 1
    /\ users_db["alice"].id = 2

(* C14: no two user records share a username and no two share an email,
   after any sequence of register_user, update_user and delete_user. *)
C14_UniqueUsernameEmail ==
    \A k1 \in DOMAIN users_db, k2 \in DOMAIN users_db :
        k1 # k2 => /\ users_db[k1].username # users_db[k2].username
                   /\ users_db[k1].email # users_db[k2].email

(* C15: the events written to a connection are in ascending message id, none
   twice; and every step that appends a message whose receiver is registered
   on an open connection writes that message's event, once, at the end of
   that connection's inbox, whichever handler appended it. *)
C15_PushedInOrderOnce ==
    /\ [](\A c \in Conns :
             \A m \in 1..Len(ws[c].inbox), n \in 1..Len(ws[c].inbox) :
                m < n => ws[c].inbox[m] < ws[c].inbox[n])
    /\ [][\A i \in DOMAIN messages_db' \ DOMAIN messages_db :
            LET B == messages_db'[i].receiver_id IN
            (/\ B \in DOMAIN active_connections
             /\ ws[active_connections[B]].chan = "open")
            => ws'[active_connections[B]].inbox =
                  Append(ws[active_connections[B]].inbox, i)]_vars

(* C16: a receiver whose channel never completes a send does not hold up
   the sender: every REST send_message waiting for a push returns in the
   end, and while some channel is stalled a message appended for a receiver
   registered on an open channel is written to that channel. *)
SendsReturn ==
    \A p \in PushRecords : (p \in pending) ~> (p \notin pending)

OthersDelivered ==
    [][\A i \in DOMAIN messages_db' \ DOMAIN messages_db :
          LET B == messages_db'[i].receiver_id IN
          (/\ \E c \in Conns : ws[c].chan = "stalled"
           /\ B \in DOMAIN active_connections
           /\ ws[active_connections[B]].chan = "open")
          => ws'[active_connections[B]].inbox =
                Append(ws[active_connections[B]].inbox, i)]_vars

C16_StalledNoBlock == SendsReturn /\ OthersDelivered

(* C17: the unread_count get_user_chats reports to its caller U for a
   conversation is the number of messages the other participant sent to U
   that U has not read. *)
UnreadFor(messages, me, other_user_id) ==
    Cardinality({i \in DOMAIN messages :
                    /\ messages[i].sender_id = other_user_id
                    /\ messages[i].receiver_id = me
                    /\ ~messages[i].is_read})

C17_UnreadForCaller ==
    [][\A cur \in Usernames :
          get_user_chats(cur)
          => \A e \in resp'.body :
                e.unread_count = UnreadFor(messages_db, resp'.me, e.other_user)]_vars

(* C18: unread_count of every conversation is the number of stored messages
   between its two participants with is_read = FALSE; and a
   get_chat_messages by a user none of whose own messages to the peer is
   unread leaves the conversation's unread_count at 0. *)
UnreadBetween(messages, chat) ==
    Cardinality({i \in DOMAIN messages :
                    /\ {messages[i].sender_id, messages[i].receiver_id}
                          = PairOf(chat)
                    /\ ~messages[i].is_read})

C18_UnreadCountExact ==
    /\ [](\A k \in DOMAIN chats_db :
             chats_db[k].unread_count = UnreadBetween(messages_db, chats_db[k]))
    /\ [][\A cur \in Usernames, other_user_id \in Ids :
            (/\ resp'.op = "get_chat_messages"
             /\ get_chat_messages(cur, other_user_id)
             /\ \A i \in DOMAIN messages_db :
                   (/\ messages_db[i].sender_id = users_db[cur].id
                    /\ messages_db[i].receiver_id = other_user_id)
                   => messages_db[i].is_read)
            => chats_db'[ChatKey(users_db[cur].id, other_user_id)]
                  .unread_count = 0]_vars

C18_Witness ==
    /\ resp.op = "get_chat_messages"
    /\ resp.me # resp.other_user_id
    /\ Len(resp.body) = 2
    /\ \A n \in 1..2 : /\ resp.body[n].sender_id = resp.other_user_id
                       /\ messages_db[resp.body[n].id].is_read
    /\ chats_db[ChatKey(resp.me, resp.other_user_id)].unread_count = 0

(* C19: last_message of every conversation is None exactly when no stored
   message is between its two participants, and otherwise is the stored
   message with the greatest id among those between them. *)
IdsBetween(messages, chat) ==
    {i \in DOMAIN messages :
        {messages[i].sender_id, messages[i].receiver_id} = PairOf(chat)}

C19_LastMessageLatest ==
    \A k \in DOMAIN chats_db :
        LET ids == IdsBetween(messages_db, chats_db[k]) IN
        /\ chats_db[k].last_message = NoMessage <=> ids = {}
        /\ ids # {} => /\ chats_db[k].last_message \in ids
                       /\ \A i \in ids : i <= chats_db[k].last_message

C19_Witness ==
    \E k \in DOMAIN chats_db :
        /\ Cardinality(IdsBetween(messages_db, chats_db[k])) = 2
        /\ chats_db[k].last_message = 2
        /\ messages_db[2].is_read
        /\ messages_db[1].sender_id # messages_db[2].sender_id
        /\ \E j \in DOMAIN chats_db : chats_db[j].last_message = NoMessage

(* C20: messages_db is append-only: a step that adds a message gives it an
   id greater than every id stored before, no step removes a message, and
   no step changes the id, content, sender_id, receiver_id or timestamp of a
   stored message; every message is stored under its own id. *)
Immutable(msg) ==
    [id |-> msg.id, content |-> msg.content, sender_id |-> msg.sender_id,
     receiver_id |-> msg.receiver_id, timestamp |-> msg.timestamp]

C20_AppendOnly ==
    /\ [](\A i \in DOMAIN messages_db : messages_db[i].id = i)
    /\ [][/\ DOMAIN messages_db \subseteq DOMAIN messages_db'
          /\ \A i \in DOMAIN messages_db :
                Immutable(messages_db'[i]) = Immutable(messages_db[i])
          /\ \A i \in DOMAIN messages_db' \ DOMAIN messages_db :
                \A j \in DOMAIN messages_db : i > j]_vars

C20_Witness ==
    /\ DOMAIN messages_db = {1, 2}
    /\ messages_db[1].is_read
    /\ ~messages_db[2].is_read
    /\ messages_db[1].sender_id = messages_db[2].receiver_id
    /\ messages_db[1].receiver_id = messages_db[2].sender_id
    /\ messages_db[1].sender_id # messages_db[1].receiver_id
    /\ \E c \in Conns : ws[c].user_id = messages_db[2].sender_id

(* C21: is_read is one-way: a message is stored with is_read = FALSE, and no
   step sets is_read of a stored message from TRUE back to FALSE. *)
C21_ReadOneWay ==
    [][/\ \A i \in DOMAIN messages_db' \ DOMAIN messages_db :
             ~messages_db'[i].is_read
       /\ \A i \in DOMAIN messages_db :
             messages_db[i].is_read
             => /\ i \in DOMAIN messages_db'
                /\ messages_db'[i].is_read]_vars

C21_Witness ==
    /\ resp.op = "send_message"
    /\ resp.status = 200
    /\ resp.body.id = 2
    /\ messages_db[1].is_read
    /\ messages_db[1].receiver_id = resp.body.receiver_id
    /\ messages_db[1].sender_id = resp.body.sender_id
    /\ messages_db[1].sender_id # messages_db[1].receiver_id
    /\ ~messages_db[2].is_read
    /\ chats_db[ChatKey(resp.body.sender_id, resp.body.receiver_id)]
          .unread_count = 1

(* C22: a successful register_user never assigns an id that a stored
   message already carries as sender_id or receiver_id: the users those
   messages name keep their ids for themselves, whatever was deleted since. *)
IdsInMessages(messages) ==
    {messages[i].sender_id : i \in DOMAIN messages}
       \cup {messages[i].receiver_id : i \in DOMAIN messages}

C22_UserIdNeverReused ==
    [][\A username \in Usernames, email \in Emails :
          (/\ register_user(username, email)
           /\ resp'.op = "register_user"
           /\ resp'.status = 200)
          => resp'.id \notin IdsInMessages(messages_db)]_vars

====
